---- MODULE Spec2Model ----
(***************************************************************************)
(* A model of CQT_Charge's polling/notification engine (listener.py,       *)
(* ChargeListener) and of its request throttle (client.py,                 *)
(* ChargeClientController).                                                *)
(*                                                                         *)
(* The program runs on one asyncio event loop.  A task created with        *)
(* asyncio.create_task is appended to the loop's FIFO queue of ready       *)
(* callbacks (`ready`) and runs, when it reaches the head, up to its next  *)
(* suspension point.  A task suspended on a network call, a sleep or a     *)
(* hook's own await is resumed by an event whose time the program does not *)
(* control.  register_hook and unregister_hook are synchronous: each is    *)
(* one atomic step of whichever task calls it (the message handler, or a   *)
(* hook body while its dispatch holds the station lock).                   *)
(***************************************************************************)
EXTENDS Integers, Sequences, FiniteSets, TLC

\* ------------------------------------------------------------------ bounds
\* Tasks (add / remove / dispatch) alive at once: queued, waiting for a lock,
\* or inside a hook.
MaxTasks == 3
\* Poll-loop tasks alive at once (the code intends one).
MaxLoops == 2
\* register_hook / unregister_hook calls in one run.
MaxCalls == 4
\* Requests of the poll loops that complete (with data or an error) in one run.
MaxPolls == 2
\* Time advances MaxTicks times in the rate limiter's specification.
MaxTicks == 16
\* Calls of get_station_info / get_stations in the session's specification,
\* and the days that may pass in it.
MaxRequests == 6
MaxDays == 1

\* --------------------------------------------------------- program constants
POLL_INTERVAL == 15
EXPIRE_TIME == 30

\* The registry built at construction: station name -> station id.
stations == [n \in {"A", "B"} |-> IF n = "A" THEN 1 ELSE 2]
StationIds == {stations[n] : n \in DOMAIN stations}
\* self.hooks / self.locks are dicts built from stations.values(): iteration
\* follows insertion order.
StationOrder == <<1, 2>>
\* Hook callbacks (compared by identity).
Hooks == {"h1", "h2"}
\* The (station name, hook) arguments the callers use; the registry has no
\* station "X".
CallArgs == {<<"A", "h1">>, <<"A", "h2">>, <<"B", "h1">>, <<"X", "h1">>}
\* A station's state is its free-slot count.  What the directory query at
\* construction returned: every station, nothing free.
FirstSnapshot == [s \in StationIds |-> 0]
\* What a later fetch can return: the same, a change at station 1, or an
\* answer that lacks station 2.
Snapshots ==
    {FirstSnapshot,
     [s \in StationIds |-> IF s = 1 THEN 1 ELSE 0],
     [s \in {1} |-> 0]}
LoopIds == 1..MaxLoops

\* ChargeClientController
RELOGIN_INTERVAL == 86400
MIN_REQUEST_INTERVAL == 5
MAX_REQUESTS_PER_MINUTE == 15
\* The length of the sliding window, in seconds.
WINDOW == 60
Callers == {"c1", "c2"}
Idle == [pc |-> "idle", current_time |-> 0, wake |-> 0]
\* The controller's two request methods, and a caller inside neither.
Ops == {"get_station_info", "get_stations"}
NoCall == [op |-> "none", pc |-> "idle"]

VARIABLES
    hooks,          \* self.hooks: station id -> list of hooks
    locks,          \* self.locks: station id -> asyncio.Lock
    station_status, \* self.station_status: <<>> (None) or <<record>>
    refresh_task,   \* self._refresh_task: 0 (None) or the id of a loop task
    loops,          \* the _refresh_station_status_task tasks, by id
    ready,          \* the event loop's FIFO queue of tasks ready to run
    inhook,         \* dispatches suspended inside `await hook(...)`
    raised,         \* what the last register_hook/unregister_hook call raised
    last,           \* history: the last call made for (station, hook)
    finished,       \* history: (station, hook) whose dispatch returned true
                    \* since the last register_hook call for it
    calls,          \* register_hook / unregister_hook calls made so far
    polls,          \* poll requests completed so far
    now,            \* loop.time(), in seconds
    request_times,  \* controller.request_times
    lock,           \* controller.lock (asyncio.Lock), waiters are callers
    callers,        \* the coroutines calling ensure_rate_limit, by name
    admitted,       \* history: admission times within the trailing window
    admissions,     \* history: number of requests admitted so far
    first_admitted, \* history: time of the first admission, -1 before it
    token,          \* client.token is set
    login_time,     \* controller.login_time
    error_count,    \* controller.error_count
    calling,        \* get_station_info / get_stations in progress, by caller
    begins,         \* history: upstream data requests begun so far
    last_begin,     \* history: time the latest data request began
    streak,         \* history: data requests that failed in a row
    fetching,       \* get_station_status awaits its upstream fetch
    returned,       \* what the last get_station_status call returned
    reported,       \* what was last passed to on_error / on_warning
    outcome,        \* history: the failure the latest hook call or poll met
    due             \* history: per station, the (hook, state) of the
                    \* dispatches created and not yet run, oldest first

listener == <<hooks, locks, station_status, refresh_task, loops, ready,
              inhook, raised, last, finished, calls, polls>>
controller == <<now, request_times, lock, callers, admitted, admissions,
                first_admitted>>
session == <<token, login_time, error_count, calling, begins, last_begin,
             streak>>
access == <<fetching, returned, reported, outcome, due>>
vars == <<hooks, locks, station_status, refresh_task, loops, ready, inhook,
          raised, last, finished, calls, polls, now, request_times, lock,
          callers, admitted, admissions, first_admitted, token, login_time,
          error_count, calling, begins, last_begin, streak, fetching,
          returned, reported, outcome, due>>

\* ------------------------------------------------------------------ helpers
Max(a, b) == IF a > b THEN a ELSE b
Min(a, b) == IF a < b THEN a ELSE b
In(x, seq) == \E k \in 1..Len(seq) : seq[k] = x
RECURSIVE RemoveFirst(_, _)
\* list.remove(x): drops the first occurrence.
RemoveFirst(seq, x) ==
    IF seq = <<>> THEN <<>>
    ELSE IF Head(seq) = x THEN Tail(seq)
    ELSE <<Head(seq)>> \o RemoveFirst(Tail(seq), x)
RemoveAt(seq, i) == SubSeq(seq, 1, i - 1) \o SubSeq(seq, i + 1, Len(seq))
RECURSIVE SumLen(_, _)
SumLen(f, S) ==
    IF S = {} THEN 0
    ELSE LET s == CHOOSE x \in S : TRUE
         IN Len(f[s]) + SumLen(f, S \ {s})

\* any(self.hooks.values())
AnyHooks(hs) == \E s \in StationIds : hs[s] # <<>>

\* ------------------------------------------------------------------- tasks
AddTask(sid, h) == [kind |-> "add", sid |-> sid, hook |-> h, locked |-> FALSE]
RemoveTask(sid, h) ==
    [kind |-> "remove", sid |-> sid, hook |-> h, locked |-> FALSE]
\* Mutant: the previous state is not passed on.
HandleTask_NoPrevious(sid, h, d, prev) ==
    [kind |-> "handle", sid |-> sid, hook |-> h, data |-> d, prev |-> <<>>,
     locked |-> FALSE]
\* prev is <<>> for None and <<v>> for a state v.
HandleTask(sid, h, d, prev) ==
    [kind |-> "handle", sid |-> sid, hook |-> h, data |-> d, prev |-> prev,
     locked |-> FALSE]
RefreshTask(i) == [kind |-> "refresh", id |-> i]

NoLoop == [pc |-> "none", timer |-> 0, cancelled |-> FALSE]
Started == [NoLoop EXCEPT !.pc = "start"]
\* A poll loop that can still poll.
Live(l) == l.pc \in {"start", "request", "sleep"} /\ ~l.cancelled
LiveLoops == {i \in LoopIds : Live(loops[i])}
FreeLoops == {i \in LoopIds : loops[i].pc = "none"}

TaskCount ==
    Cardinality({k \in 1..Len(ready) : ready[k].kind # "refresh"})
    + Len(inhook)
    + SumLen([s \in StationIds |-> locks[s].waiters], StationIds)

\* ------------------------------------------------------------- asyncio.Lock
\* Mutant: a lock that only looks at its queue, not at whether it is held.
CanAcquire_IgnoresHolder(lk) == lk.waiters = <<>>
\* Lock.acquire returns at once when the lock is free and nobody waits.
CanAcquire(lk) == ~lk.locked /\ lk.waiters = <<>>
\* Lock.release wakes the first waiter, which alone may then take the lock
\* (later acquirers queue behind it): modelled as handing the lock over.
Released(lk) ==
    IF lk.waiters = <<>> THEN [locked |-> FALSE, waiters |-> <<>>]
    ELSE [locked |-> TRUE, waiters |-> Tail(lk.waiters)]
Woken(lk) ==
    IF lk.waiters = <<>> THEN <<>>
    ELSE <<[Head(lk.waiters) EXCEPT !.locked = TRUE]>>

Init ==
    /\ hooks = [s \in StationIds |-> <<>>]
    /\ locks = [s \in StationIds |-> [locked |-> FALSE, waiters |-> <<>>]]
    /\ station_status \in {<<>>, <<[data |-> FirstSnapshot, age |-> 0]>>}
    /\ refresh_task = 0
    /\ loops = [i \in LoopIds |-> NoLoop]
    /\ ready = <<>>
    /\ inhook = <<>>
    /\ raised = "none"
    /\ last = [s \in StationIds |-> [h \in Hooks |-> "never"]]
    /\ finished = {}
    /\ calls = 0
    /\ polls = 0
    /\ now = 0
    /\ request_times = <<>>
    /\ lock = [locked |-> FALSE, waiters |-> <<>>]
    /\ callers = [c \in Callers |-> Idle]
    /\ admitted = <<>>
    /\ admissions = 0
    /\ first_admitted = -1
    /\ token = FALSE
    /\ login_time = -RELOGIN_INTERVAL
    /\ error_count = 0
    /\ calling = [c \in Callers |-> NoCall]
    /\ begins = 0
    /\ last_begin = -1
    /\ streak = 0
    /\ fetching = FALSE
    /\ returned = [error |-> FALSE, data |-> <<>>]
    /\ reported = "none"
    /\ outcome = "none"
    /\ due = [s \in StationIds |-> <<>>]

\* ------------------------------------------------ register / unregister
\* Mutant: a record exactly EXPIRE_TIME old still counts as fresh.
Fresh_Inclusive(status, station_id) ==
    /\ status # <<>>
    /\ station_id \in DOMAIN status[1].data
    /\ status[1].age <= EXPIRE_TIME
\* The cached record holds the station and is younger than EXPIRE_TIME
\* (age stands for loop.time() - station_status.time).
Fresh(status, station_id) ==
    /\ status # <<>>
    /\ station_id \in DOMAIN status[1].data
    /\ status[1].age < EXPIRE_TIME

\* A loop slot whose task died of an exception is kept while the handle
\* still refers to it, and reclaimed afterwards.
Collect(ls, handle) ==
    [i \in LoopIds |->
        IF ls[i].pc = "crashed" /\ handle # i THEN NoLoop ELSE ls[i]]

\* Task.cancel(): a task not yet started, or suspended, gets CancelledError at
\* its next step; a finished task is left alone.
Cancel(ls, i) ==
    IF ls[i].pc \in {"start", "request", "sleep"}
    THEN [ls EXCEPT ![i].cancelled = TRUE, ![i].timer = 0]
    ELSE ls
\* Cancelling a suspended task schedules its wake-up; a task not yet started is
\* already in the ready queue.
CancelWake(ls, i) ==
    IF ls[i].pc \in {"request", "sleep"} THEN <<RefreshTask(i)>> ELSE <<>>

\* Mutant: an unknown station name is silently ignored.
Raises_Nothing ==
    /\ raised' = "none"
    /\ UNCHANGED <<hooks, locks, station_status, refresh_task, loops, ready,
                   inhook>>
\* `raise ValueError(...)` out of register_hook / unregister_hook.
Raises ==
    /\ raised' = "ValueError"
    /\ UNCHANGED <<hooks, locks, station_status, refresh_task, loops, ready,
                   inhook>>

register_hook(station_name, hook) ==
    IF station_name \notin DOMAIN stations
    THEN Raises
    ELSE LET station_id == stations[station_name]
             immediate ==
                 IF Fresh(station_status, station_id)
                 THEN <<HandleTask(station_id, hook,
                                   station_status[1].data[station_id], <<>>)>>
                 ELSE <<>>
             start == refresh_task = 0
             i == CHOOSE x \in FreeLoops : \A y \in FreeLoops : x <= y
         IN /\ TaskCount + 1 + Len(immediate) <= MaxTasks
            /\ start => FreeLoops # {}
            /\ ready' = ready \o <<AddTask(station_id, hook)>> \o immediate
                          \o (IF start THEN <<RefreshTask(i)>> ELSE <<>>)
            /\ loops' = IF start THEN [loops EXCEPT ![i] = Started]
                        ELSE loops
            /\ refresh_task' = IF start THEN i ELSE refresh_task
            /\ raised' = "none"
            /\ UNCHANGED <<hooks, locks, station_status, inhook>>

unregister_hook(station_name, hook) ==
    IF station_name \notin DOMAIN stations
    THEN Raises
    ELSE LET station_id == stations[station_name]
             removal ==
                 IF In(hook, hooks[station_id])
                 THEN <<RemoveTask(station_id, hook)>>
                 ELSE <<>>
             stop == ~AnyHooks(hooks) /\ refresh_task # 0
         IN /\ TaskCount + Len(removal) <= MaxTasks
            /\ ready' = ready \o removal
                          \o (IF stop THEN CancelWake(loops, refresh_task)
                              ELSE <<>>)
            /\ loops' = IF stop
                        THEN Collect(Cancel(loops, refresh_task), 0)
                        ELSE loops
            /\ refresh_task' = IF stop THEN 0 ELSE refresh_task
            /\ raised' = "none"
            /\ UNCHANGED <<hooks, locks, station_status, inhook>>


\* ------------------------------------------------------- tasks at the lock
\* Mutant: one lock for all the stations.
Enters_AnyStation(t) ==
    t.locked \/ \A s \in StationIds : CanAcquire(locks[s])
\* `async with self.locks[station_id]` by the task at the head of the ready
\* queue: it enters when it was handed the lock or the lock is free.
Enters(t) == t.locked \/ CanAcquire(locks[t.sid])
\* Mutant: the newest waiter is served first.
Waits_AtFront(t) ==
    /\ locks' = [locks EXCEPT ![t.sid].waiters = <<t>> \o @]
    /\ ready' = Tail(ready)
    /\ UNCHANGED <<hooks, station_status, refresh_task, loops, inhook,
                   raised>>
\* Otherwise it joins the lock's waiters and leaves the ready queue.
Waits(t) ==
    /\ locks' = [locks EXCEPT ![t.sid].waiters = Append(@, t)]
    /\ ready' = Tail(ready)
    /\ UNCHANGED <<hooks, station_status, refresh_task, loops, inhook,
                   raised>>
\* Leaving the `async with` block: the lock is released and the first waiter
\* becomes ready.
Leaves(t) ==
    /\ locks' = [locks EXCEPT ![t.sid] = Released(@)]
    /\ ready' = Tail(ready) \o Woken(locks[t.sid])

\* Mutant: the hook is appended without looking at the list.
add_hook_Always(t) ==
    IF Enters(t)
    THEN /\ hooks' = [hooks EXCEPT ![t.sid] = Append(@, t.hook)]
         /\ Leaves(t)
         /\ UNCHANGED <<station_status, refresh_task, loops, inhook, raised>>
    ELSE Waits(t)
\* _add_hook: under the station lock, append the hook unless it is listed.
add_hook(t) ==
    IF Enters(t)
    THEN /\ hooks' = [hooks EXCEPT ![t.sid] =
                         IF In(t.hook, @) THEN @ ELSE Append(@, t.hook)]
         /\ Leaves(t)
         /\ UNCHANGED <<station_status, refresh_task, loops, inhook, raised>>
    ELSE Waits(t)

remove_hook(t) ==
    IF Enters(t)
    THEN /\ hooks' = [hooks EXCEPT ![t.sid] =
                         IF In(t.hook, @) THEN RemoveFirst(@, t.hook) ELSE @]
         /\ Leaves(t)
         /\ UNCHANGED <<station_status, refresh_task, loops, inhook, raised>>
    ELSE Waits(t)

\* _handle_hook up to the hook's own suspension: the hook is invoked, with the
\* lock held, only when it is still in the station's list.
handle_hook(t) ==
    IF Enters(t)
    THEN IF ~In(t.hook, hooks[t.sid])
         THEN /\ Leaves(t)
              /\ UNCHANGED <<hooks, station_status, refresh_task, loops,
                             inhook, raised>>
         ELSE /\ inhook' = Append(inhook, t)
              /\ locks' = [locks EXCEPT ![t.sid].locked = TRUE]
              /\ ready' = Tail(ready)
              /\ UNCHANGED <<hooks, station_status, refresh_task, loops,
                             raised>>
    ELSE Waits(t)

\* _call_hook: bool(result) of the hook; an exception counts as False.
call_hook(result) == result = "true"

\* Mutant: the dispatch ends without releasing the station lock.
hook_returns_KeepsLock(k, result) ==
    LET t == inhook[k]
    IN /\ hooks' = [hooks EXCEPT ![t.sid] =
                       IF call_hook(result) THEN RemoveFirst(@, t.hook) ELSE @]
       /\ inhook' = RemoveAt(inhook, k)
       /\ UNCHANGED <<locks, ready, station_status, refresh_task, loops,
                      raised>>
\* The hook of dispatch k returns (true / false) or raises; _handle_hook then
\* removes a finished hook and releases the lock.
hook_returns(k, result) ==
    LET t == inhook[k]
    IN /\ hooks' = [hooks EXCEPT ![t.sid] =
                       IF call_hook(result) THEN RemoveFirst(@, t.hook) ELSE @]
       /\ locks' = [locks EXCEPT ![t.sid] = Released(@)]
       /\ ready' = ready \o Woken(locks[t.sid])
       /\ inhook' = RemoveAt(inhook, k)
       /\ UNCHANGED <<station_status, refresh_task, loops, raised>>


\* ----------------------------------------------------------- the poll loop
\* Mutant: the loop breaks without clearing the handle.
loop_top_KeepsHandle(i) ==
    IF ~AnyHooks(hooks)
    THEN /\ loops' = [loops EXCEPT ![i] = NoLoop]
         /\ UNCHANGED refresh_task
    ELSE /\ loops' = [loops EXCEPT ![i] = [NoLoop EXCEPT !.pc = "request"]]
         /\ UNCHANGED refresh_task
\* The top of `while True`: with no hook anywhere the loop breaks and clears
\* self._refresh_task, whichever task that handle names; otherwise it issues
\* the request and suspends.
loop_top(i) ==
    IF ~AnyHooks(hooks)
    THEN /\ loops' = Collect([loops EXCEPT ![i] = NoLoop], 0)
         /\ refresh_task' = 0
    ELSE /\ loops' = [loops EXCEPT ![i] = [NoLoop EXCEPT !.pc = "request"]]
         /\ UNCHANGED refresh_task

\* A loop task at the head of the ready queue: its first step, or the delivery
\* of CancelledError.  A task cancelled before its first step never runs its
\* body; one cancelled at an await runs `except CancelledError: pass` and the
\* statement after it.
refresh_step(i) ==
    /\ ready' = Tail(ready)
    /\ IF loops[i].cancelled
       THEN IF loops[i].pc = "start"
            THEN /\ loops' = [loops EXCEPT ![i] = NoLoop]
                 /\ UNCHANGED refresh_task
            ELSE /\ loops' = Collect([loops EXCEPT ![i] = NoLoop], 0)
                 /\ refresh_task' = 0
       ELSE loop_top(i)
    /\ UNCHANGED <<hooks, locks, station_status, inhook, raised>>

\* The dispatches lines 159-167 create for one station.  crash: evaluating
\* prev_record.data[station_id] raises KeyError when the previous snapshot
\* lacks the station.
StationDispatch(station_id, data, prev_record) ==
    IF station_id \notin DOMAIN data \/ hooks[station_id] = <<>>
    THEN [tasks |-> <<>>, crash |-> FALSE]
    ELSE IF prev_record # <<>> /\ station_id \notin DOMAIN prev_record[1].data
    THEN [tasks |-> <<>>, crash |-> TRUE]
    ELSE [tasks |->
             [k \in 1..Len(hooks[station_id]) |->
                 HandleTask(station_id, hooks[station_id][k], data[station_id],
                            IF prev_record = <<>> THEN <<>>
                            ELSE <<prev_record[1].data[station_id]>>)],
          crash |-> FALSE]

RECURSIVE Dispatch(_, _, _)
\* `for station_id, hooks in self.hooks.items()`: the tasks created, in order,
\* until an exception ends the loop task.
Dispatch(order, data, prev_record) ==
    IF order = <<>> THEN [tasks |-> <<>>, crash |-> FALSE]
    ELSE LET d == StationDispatch(Head(order), data, prev_record)
         IN IF d.crash THEN d
            ELSE LET rest == Dispatch(Tail(order), data, prev_record)
                 IN [tasks |-> d.tasks \o rest.tasks, crash |-> rest.crash]

Sleeping == [NoLoop EXCEPT !.pc = "sleep", !.timer = POLL_INTERVAL]

\* The request of loop i fails: the error is reported and the loop sleeps.
request_fails(i) ==
    /\ loops[i].pc = "request" /\ ~loops[i].cancelled
    /\ loops' = [loops EXCEPT ![i] = Sleeping]
    /\ UNCHANGED <<hooks, locks, station_status, refresh_task, ready, inhook,
                   raised>>

\* The request of loop i returns data: the cache is replaced, the dispatches
\* are created, and the loop sleeps (or dies of the KeyError).
request_succeeds(i, data) ==
    LET d == Dispatch(StationOrder, data, station_status)
    IN /\ loops[i].pc = "request" /\ ~loops[i].cancelled
       /\ TaskCount + Len(d.tasks) <= MaxTasks
       /\ station_status' = <<[data |-> data, age |-> 0]>>
       /\ ready' = ready \o d.tasks
       /\ loops' = IF d.crash
                   THEN Collect([loops EXCEPT ![i] =
                                    [NoLoop EXCEPT !.pc = "crashed"]],
                                refresh_task)
                   ELSE [loops EXCEPT ![i] = Sleeping]
       /\ UNCHANGED <<hooks, locks, refresh_task, inhook, raised>>

\* asyncio.sleep(POLL_INTERVAL) is over: back to the top of the loop.
sleep_ends(i) ==
    /\ loops[i].pc = "sleep" /\ ~loops[i].cancelled /\ loops[i].timer = 0
    /\ loop_top(i)
    /\ UNCHANGED <<hooks, locks, station_status, ready, inhook, raised>>


\* Time passes by POLL_INTERVAL: the cache ages (ages of EXPIRE_TIME and more
\* are alike) and sleeps run down.  Ready tasks run at once, so time passes
\* only when none is ready, and a sleep that is over ends before it passes
\* again.
tick ==
    /\ ready = <<>>
    /\ \A i \in LoopIds :
          ~(loops[i].pc = "sleep" /\ ~loops[i].cancelled /\ loops[i].timer = 0)
    /\ \/ station_status # <<>> /\ station_status[1].age < EXPIRE_TIME
       \/ \E i \in LoopIds : loops[i].pc = "sleep" /\ loops[i].timer > 0
    /\ station_status' =
          IF station_status = <<>> THEN <<>>
          ELSE <<[station_status[1] EXCEPT
                     !.age = Min(@ + POLL_INTERVAL, EXPIRE_TIME)]>>
    /\ loops' = [i \in LoopIds |->
                    [loops[i] EXCEPT !.timer = Max(@ - POLL_INTERVAL, 0)]]
    /\ UNCHANGED <<hooks, locks, refresh_task, ready, inhook, raised>>

\* ------------------------------------------------------------------ actions
\* One action per operation or task step.  The history variables last and
\* finished are recorded only by the specifications that need them.
RegisterHook ==
    /\ calls < MaxCalls
    /\ \E a \in CallArgs : register_hook(a[1], a[2])
    /\ calls' = calls + 1
    /\ UNCHANGED <<polls, last, finished>>
    /\ UNCHANGED <<controller, session, access>>
UnregisterHook ==
    /\ calls < MaxCalls
    /\ \E a \in CallArgs : unregister_hook(a[1], a[2])
    /\ calls' = calls + 1
    /\ UNCHANGED <<polls, last, finished>>
    /\ UNCHANGED <<controller, session, access>>
RunAddHook ==
    /\ ready # <<>> /\ Head(ready).kind = "add"
    /\ add_hook(Head(ready))
    /\ UNCHANGED <<calls, polls, last, finished>>
    /\ UNCHANGED <<controller, session, access>>
RunRemoveHook ==
    /\ ready # <<>> /\ Head(ready).kind = "remove"
    /\ remove_hook(Head(ready))
    /\ UNCHANGED <<calls, polls, last, finished>>
    /\ UNCHANGED <<controller, session, access>>
RunHandleHook ==
    /\ ready # <<>> /\ Head(ready).kind = "handle"
    /\ handle_hook(Head(ready))
    /\ UNCHANGED <<calls, polls, last, finished>>
    /\ UNCHANGED <<controller, session, access>>
HookReturn ==
    /\ \E k \in 1..Len(inhook), result \in {"true", "false", "raise"} :
          hook_returns(k, result)
    /\ UNCHANGED <<calls, polls, last, finished>>
    /\ UNCHANGED <<controller, session, access>>
RunRefresh ==
    /\ ready # <<>> /\ Head(ready).kind = "refresh"
    /\ refresh_step(Head(ready).id)
    /\ UNCHANGED <<calls, polls, last, finished>>
    /\ UNCHANGED <<controller, session, access>>
RequestFails ==
    /\ polls < MaxPolls
    /\ \E i \in LoopIds : request_fails(i)
    /\ polls' = polls + 1
    /\ UNCHANGED <<calls, last, finished>>
    /\ UNCHANGED <<controller, session, access>>
RequestSucceeds ==
    /\ polls < MaxPolls
    /\ \E i \in LoopIds, data \in Snapshots : request_succeeds(i, data)
    /\ polls' = polls + 1
    /\ UNCHANGED <<calls, last, finished>>
    /\ UNCHANGED <<controller, session, access>>
SleepEnds ==
    /\ \E i \in LoopIds : sleep_ends(i)
    /\ UNCHANGED <<calls, polls, last, finished>>
    /\ UNCHANGED <<controller, session, access>>
Tick ==
    /\ tick
    /\ UNCHANGED <<calls, polls, last, finished>>
    /\ UNCHANGED <<controller, session, access>>

Next ==
    \/ RegisterHook
    \/ UnregisterHook
    \/ RunAddHook
    \/ RunRemoveHook
    \/ RunHandleHook
    \/ HookReturn
    \/ RunRefresh
    \/ RequestFails
    \/ RequestSucceeds
    \/ SleepEnds
    \/ Tick

Spec == Init /\ [][Next]_vars

\* ------------------------------------------------- history specifications
\* SpecLast records, for each (station, hook), whether register_hook was ever
\* called for it and which call came last.
LastAfter(op, station_name, hook) ==
    IF station_name \notin DOMAIN stations THEN last
    ELSE [last EXCEPT ![stations[station_name]][hook] =
             IF op = "register" THEN "register"
             ELSE IF @ = "never" THEN "never" ELSE "unregister"]
LRegisterHook ==
    /\ calls < MaxCalls
    /\ \E a \in CallArgs :
          /\ register_hook(a[1], a[2])
          /\ last' = LastAfter("register", a[1], a[2])
    /\ calls' = calls + 1
    /\ UNCHANGED <<polls, finished>>
    /\ UNCHANGED <<controller, session, access>>
LUnregisterHook ==
    /\ calls < MaxCalls
    /\ \E a \in CallArgs :
          /\ unregister_hook(a[1], a[2])
          /\ last' = LastAfter("unregister", a[1], a[2])
    /\ calls' = calls + 1
    /\ UNCHANGED <<polls, finished>>
    /\ UNCHANGED <<controller, session, access>>
NextLast ==
    \/ LRegisterHook
    \/ LUnregisterHook
    \/ RunAddHook
    \/ RunRemoveHook
    \/ RunHandleHook
    \/ HookReturn
    \/ RunRefresh
    \/ RequestFails
    \/ RequestSucceeds
    \/ SleepEnds
    \/ Tick
SpecLast == Init /\ [][NextLast]_vars

\* SpecFinished records the (station, hook) pairs whose dispatch returned a
\* truthy value since the last register_hook call for that pair.
FRegisterHook ==
    /\ calls < MaxCalls
    /\ \E a \in CallArgs :
          /\ register_hook(a[1], a[2])
          /\ finished' = IF a[1] \in DOMAIN stations
                         THEN finished \ {<<stations[a[1]], a[2]>>}
                         ELSE finished
    /\ calls' = calls + 1
    /\ UNCHANGED <<polls, last>>
    /\ UNCHANGED <<controller, session, access>>
FHookReturn ==
    /\ \E k \in 1..Len(inhook), result \in {"true", "false", "raise"} :
          /\ hook_returns(k, result)
          /\ finished' = IF result = "true"
                         THEN finished \cup {<<inhook[k].sid, inhook[k].hook>>}
                         ELSE finished
    /\ UNCHANGED <<calls, polls, last>>
    /\ UNCHANGED <<controller, session, access>>
NextFinished ==
    \/ FRegisterHook
    \/ UnregisterHook
    \/ RunAddHook
    \/ RunRemoveHook
    \/ RunHandleHook
    \/ FHookReturn
    \/ RunRefresh
    \/ RequestFails
    \/ RequestSucceeds
    \/ SleepEnds
    \/ Tick
SpecFinished == Init /\ [][NextFinished]_vars

\* ------------------------------------------------- ensure_rate_limit
\* Mutant: the sliding window forgets every recorded request.
Prune_All(times, current_time) == <<>>
\* [t for t in self.request_times if current_time - t < 60]
RECURSIVE Prune(_, _)
Prune(times, current_time) ==
    IF times = <<>> THEN <<>>
    ELSE IF current_time - Head(times) < WINDOW
         THEN <<Head(times)>> \o Prune(Tail(times), current_time)
         ELSE Prune(Tail(times), current_time)
\* The sleep of the window branch: 0 when the window is not full.
WindowWait(times, current_time) ==
    IF Len(times) >= MAX_REQUESTS_PER_MINUTE
    THEN WINDOW - (current_time - times[1])
    ELSE 0
\* Mutant: no minimum interval is kept between two requests.
IntervalWait_None(times, current_time) == 0
\* The sleep of the minimum-interval branch: 0 when none is needed.
IntervalWait(times, current_time) ==
    IF times # <<>> /\ current_time - times[Len(times)] < MIN_REQUEST_INTERVAL
    THEN MIN_REQUEST_INTERVAL - (current_time - times[Len(times)])
    ELSE 0
\* The caller the released lock is handed to resumes holding it.
HandOver(cs, lk) ==
    IF lk.waiters = <<>> THEN cs
    ELSE [cs EXCEPT ![Head(lk.waiters)].pc = "acquired"]
\* self.request_times.append(loop.time()), then the lock is released.
admit(c, times, lk) ==
    /\ request_times' = Append(times, now)
    /\ lock' = Released(lk)
    /\ callers' = HandOver([callers EXCEPT ![c] = Idle], lk)
\* Mutant: the lock is given up for the length of the sleep.
interval_ReleasesLock(c, times, current_time, lk) ==
    IF IntervalWait(times, current_time) > 0
    THEN /\ request_times' = times
         /\ lock' = Released(lk)
         /\ callers' =
               HandOver([callers EXCEPT ![c] =
                            [pc |-> "sleep_interval",
                             current_time |-> current_time,
                             wake |-> now + IntervalWait(times, current_time)]],
                        lk)
    ELSE admit(c, times, lk)
\* The minimum-interval branch, with the current_time read on entry.
interval(c, times, current_time, lk) ==
    IF IntervalWait(times, current_time) > 0
    THEN /\ request_times' = times
         /\ lock' = lk
         /\ callers' =
               [callers EXCEPT ![c] =
                   [pc |-> "sleep_interval", current_time |-> current_time,
                    wake |-> now + IntervalWait(times, current_time)]]
    ELSE admit(c, times, lk)
\* The body run on entering the lock, up to its first sleep or to its end.
body(c, lk) ==
    LET times == Prune(request_times, now)
    IN IF WindowWait(times, now) > 0
       THEN /\ request_times' = times
            /\ lock' = lk
            /\ callers' =
                  [callers EXCEPT ![c] =
                      [pc |-> "sleep_window", current_time |-> now,
                       wake |-> now + WindowWait(times, now)]]
       ELSE interval(c, times, now, lk)
\* await ensure_rate_limit(): takes the lock or queues for it.
ensure_rate_limit(c) ==
    /\ callers[c].pc = "idle"
    /\ IF CanAcquire(lock)
       THEN body(c, [lock EXCEPT !.locked = TRUE])
       ELSE /\ lock' = [lock EXCEPT !.waiters = Append(@, c)]
            /\ callers' = [callers EXCEPT ![c].pc = "acquire"]
            /\ UNCHANGED request_times
\* A caller woken by the release of the lock enters the body.
acquired(c) ==
    /\ callers[c].pc = "acquired"
    /\ body(c, lock)
\* asyncio.sleep returns, not before the time asked for.
wakes(c) ==
    /\ callers[c].pc \in {"sleep_window", "sleep_interval"}
    /\ now >= callers[c].wake
    /\ IF callers[c].pc = "sleep_window"
       THEN interval(c, request_times, callers[c].current_time, lock)
       ELSE admit(c, request_times, lock)

\* The history of admissions: c was admitted iff its step ends the call.
Records(c) ==
    IF callers'[c].pc = "idle"
    THEN /\ admitted' = Append(admitted, now)
         /\ admissions' = admissions + 1
         /\ first_admitted' = IF admissions = 0 THEN now ELSE first_admitted
    ELSE UNCHANGED <<admitted, admissions, first_admitted>>
EnsureRateLimit ==
    /\ \E c \in Callers : ensure_rate_limit(c) /\ Records(c)
    /\ UNCHANGED <<now, listener, session, access>>
Acquired ==
    /\ \E c \in Callers : acquired(c) /\ Records(c)
    /\ UNCHANGED <<now, listener, session, access>>
Wakes ==
    /\ \E c \in Callers : wakes(c) /\ Records(c)
    /\ UNCHANGED <<now, listener, session, access>>
Elapse ==
    /\ now < MaxTicks * MIN_REQUEST_INTERVAL
    /\ now' = now + MIN_REQUEST_INTERVAL
    /\ admitted' = SelectSeq(admitted, LAMBDA t : now' - t < WINDOW)
    /\ UNCHANGED <<request_times, lock, callers, admissions, first_admitted,
                   listener, session, access>>
NextRateLimit ==
    \/ EnsureRateLimit
    \/ Acquired
    \/ Wakes
    \/ Elapse
\* A controller just constructed, its listener built by __init__.
InitRateLimit == Init /\ station_status = <<>>
SpecRateLimit == InitRateLimit /\ [][NextRateLimit]_vars

\* ----------------------------------------- get_station_info / get_stations
\* Mutant: a session exactly RELOGIN_INTERVAL old is renewed already.
NeedsLogin_AtInterval == ~token \/ now - login_time >= RELOGIN_INTERVAL
\* ensure_login's test: no token, or a session older than RELOGIN_INTERVAL.
NeedsLogin == ~token \/ now - login_time > RELOGIN_INTERVAL
\* Where the caller is once its step inside ensure_rate_limit is over: still
\* inside it, or past it and suspended at the next await of its method
\* (get_station_info logs in after the throttle, get_stations before it).
after_rate_limit(c, op) ==
    calling' =
       [calling EXCEPT ![c] =
           IF callers'[c].pc # "idle" THEN [op |-> op, pc |-> "rate_limit"]
           ELSE IF op = "get_station_info" /\ NeedsLogin
                THEN [op |-> op, pc |-> "login"]
                ELSE [op |-> op, pc |-> "request"]]
get_station_info(c) ==
    /\ calling[c] = NoCall
    /\ ensure_rate_limit(c)
    /\ after_rate_limit(c, "get_station_info")
    /\ UNCHANGED <<token, login_time, error_count>>
get_stations(c) ==
    /\ calling[c] = NoCall
    /\ IF NeedsLogin
       THEN /\ calling' = [calling EXCEPT
                              ![c] = [op |-> "get_stations", pc |-> "login"]]
            /\ UNCHANGED <<request_times, lock, callers>>
       ELSE /\ ensure_rate_limit(c)
            /\ after_rate_limit(c, "get_stations")
    /\ UNCHANGED <<token, login_time, error_count>>
\* A caller inside ensure_rate_limit gets the lock handed over.
rate_limit_acquired(c) ==
    /\ calling[c].pc = "rate_limit"
    /\ acquired(c)
    /\ after_rate_limit(c, calling[c].op)
    /\ UNCHANGED <<token, login_time, error_count>>
\* A caller inside ensure_rate_limit wakes from its sleep.
rate_limit_wakes(c) ==
    /\ calling[c].pc = "rate_limit"
    /\ wakes(c)
    /\ after_rate_limit(c, calling[c].op)
    /\ UNCHANGED <<token, login_time, error_count>>
\* client.login() returns: the token is set and the login time recorded; or
\* it raises, and the error leaves ensure_login and the calling method.
login_done(c, ok) ==
    /\ calling[c].pc = "login"
    /\ IF ok
       THEN /\ token' = TRUE
            /\ login_time' = now
            /\ IF calling[c].op = "get_stations"
               THEN /\ ensure_rate_limit(c)
                    /\ after_rate_limit(c, "get_stations")
               ELSE /\ calling' = [calling EXCEPT ![c].pc = "request"]
                    /\ UNCHANGED <<request_times, lock, callers>>
       ELSE /\ calling' = [calling EXCEPT ![c] = NoCall]
            /\ UNCHANGED <<token, login_time, request_times, lock, callers>>
    /\ UNCHANGED error_count
\* The upstream data request returns or raises.  Only get_station_info counts
\* errors: at 5 and more in a row every failure drops the token.
request_done(c, ok) ==
    /\ calling[c].pc = "request"
    /\ calling' = [calling EXCEPT ![c] = NoCall]
    /\ IF calling[c].op = "get_station_info"
       THEN IF ok
            THEN error_count' = 0 /\ UNCHANGED token
            ELSE /\ error_count' = error_count + 1
                 /\ token' = IF error_count + 1 >= 5 THEN FALSE ELSE token
       ELSE UNCHANGED <<error_count, token>>
    /\ UNCHANGED <<login_time, request_times, lock, callers>>

\* The history of data requests: c's step begins one iff it reaches the
\* request.
Begins(c) ==
    IF calling'[c].pc = "request" /\ calling[c].pc # "request"
    THEN begins' = begins + 1 /\ last_begin' = now
    ELSE UNCHANGED <<begins, last_begin>>
Frame ==
    UNCHANGED <<now, admitted, admissions, first_admitted, hooks, locks,
                station_status, refresh_task, loops, ready, inhook, raised,
                last, finished, polls, access>>
GetStationInfo ==
    /\ calls < MaxRequests
    /\ \E c \in Callers : get_station_info(c) /\ Begins(c)
    /\ calls' = calls + 1
    /\ UNCHANGED streak /\ Frame
GetStations ==
    /\ calls < MaxRequests
    /\ \E c \in Callers : get_stations(c) /\ Begins(c)
    /\ calls' = calls + 1
    /\ UNCHANGED streak /\ Frame
RateLimitAcquired ==
    /\ \E c \in Callers : rate_limit_acquired(c) /\ Begins(c)
    /\ UNCHANGED <<calls, streak>> /\ Frame
RateLimitWakes ==
    /\ \E c \in Callers : rate_limit_wakes(c) /\ Begins(c)
    /\ UNCHANGED <<calls, streak>> /\ Frame
LoginDone ==
    /\ \E c \in Callers, ok \in BOOLEAN : login_done(c, ok) /\ Begins(c)
    /\ UNCHANGED <<calls, streak>> /\ Frame
RequestDone ==
    /\ \E c \in Callers, ok \in BOOLEAN :
          /\ request_done(c, ok)
          /\ streak' = IF ok THEN 0 ELSE streak + 1
    /\ UNCHANGED <<calls, begins, last_begin>> /\ Frame
\* Time passes by MIN_REQUEST_INTERVAL while a caller sleeps inside the
\* throttle (logins and requests of the others last meanwhile), or by
\* RELOGIN_INTERVAL at once while nothing is in progress.
Passes(d) ==
    /\ now' = now + d
    /\ UNCHANGED <<request_times, lock, callers, admitted, admissions,
                   first_admitted, listener, session, access>>
SecondsPass ==
    /\ \E c \in Callers :
          /\ callers[c].pc \in {"sleep_window", "sleep_interval"}
          /\ now < callers[c].wake
    /\ Passes(MIN_REQUEST_INTERVAL)
DayPasses ==
    /\ now < MaxDays * RELOGIN_INTERVAL
    /\ \A c \in Callers : calling[c] = NoCall
    /\ Passes(RELOGIN_INTERVAL)
NextSession ==
    \/ GetStationInfo
    \/ GetStations
    \/ RateLimitAcquired
    \/ RateLimitWakes
    \/ LoginDone
    \/ RequestDone
    \/ SecondsPass
    \/ DayPasses
SpecSession == InitRateLimit /\ [][NextSession]_vars

\* ------------------------------------------------------ get_station_status
\* Mutant: a record exactly EXPIRE_TIME old is still served.
Cached_Inclusive(status) == status # <<>> /\ status[1].age <= EXPIRE_TIME
\* The cache can be served: there is a record younger than EXPIRE_TIME.
Cached(status) == status # <<>> /\ status[1].age < EXPIRE_TIME
NoResult == [error |-> FALSE, data |-> <<>>]
\* The call returns the cached data at once, or awaits a fetch.
get_station_status ==
    /\ ~fetching
    /\ IF Cached(station_status)
       THEN /\ returned' = [error |-> FALSE,
                             data |-> <<station_status[1].data>>]
            /\ UNCHANGED fetching
       ELSE /\ fetching' = TRUE
            /\ returned' = NoResult
    /\ UNCHANGED station_status
\* The fetch returns: the cache is replaced and the data returned.
status_fetched(data) ==
    /\ fetching
    /\ fetching' = FALSE
    /\ station_status' = <<[data |-> data, age |-> 0]>>
    /\ returned' = [error |-> FALSE, data |-> <<data>>]
\* The fetch raises: the error leaves get_station_status.
status_fetch_fails ==
    /\ fetching
    /\ fetching' = FALSE
    /\ returned' = [error |-> TRUE, data |-> <<>>]
    /\ UNCHANGED station_status

StatusFrame ==
    UNCHANGED <<hooks, locks, refresh_task, loops, ready, inhook, raised,
                last, finished, polls, reported, outcome, due, controller,
                session>>
GetStationStatus ==
    /\ calls < MaxCalls
    /\ get_station_status
    /\ calls' = calls + 1
    /\ StatusFrame
StatusFetched ==
    /\ \E data \in Snapshots : status_fetched(data)
    /\ UNCHANGED calls /\ StatusFrame
StatusFetchFails ==
    /\ status_fetch_fails
    /\ UNCHANGED calls /\ StatusFrame
NextStatus ==
    \/ GetStationStatus
    \/ StatusFetched
    \/ StatusFetchFails
    \/ RegisterHook
    \/ UnregisterHook
    \/ RunAddHook
    \/ RunRemoveHook
    \/ RunHandleHook
    \/ HookReturn
    \/ RunRefresh
    \/ RequestFails
    \/ RequestSucceeds
    \/ SleepEnds
    \/ Tick
SpecStatus == Init /\ [][NextStatus]_vars

\* ---------------------------------------------------- on_error, on_warning
\* `except Exception` of _call_hook: the error goes to on_error.
call_hook_reports(result) ==
    IF result = "raise" THEN "hook error" ELSE reported

RECURSIVE Warns(_, _, _)
\* The station loop of a successful poll passes a warning to on_warning for a
\* station the data lack, unless the KeyError ended the loop task before.
Warns(order, data, prev_record) ==
    IF order = <<>> THEN FALSE
    ELSE IF Head(order) \notin DOMAIN data THEN TRUE
    ELSE IF StationDispatch(Head(order), data, prev_record).crash THEN FALSE
    ELSE Warns(Tail(order), data, prev_record)
poll_reports(data) ==
    IF Warns(StationOrder, data, station_status) THEN "warning" ELSE reported

ReportFrame ==
    /\ UNCHANGED <<calls, last, finished, fetching, returned, due>>
    /\ UNCHANGED <<controller, session>>
EHookReturn ==
    /\ \E k \in 1..Len(inhook), result \in {"true", "false", "raise"} :
          /\ hook_returns(k, result)
          /\ reported' = call_hook_reports(result)
          /\ outcome' = IF result = "raise" THEN "raise" ELSE "none"
    /\ UNCHANGED polls /\ ReportFrame
ERequestFails ==
    /\ polls < MaxPolls
    /\ \E i \in LoopIds : request_fails(i)
    /\ reported' = "request error"
    /\ outcome' = "failed"
    /\ polls' = polls + 1
    /\ ReportFrame
ERequestSucceeds ==
    /\ polls < MaxPolls
    /\ \E i \in LoopIds, data \in Snapshots :
          /\ request_succeeds(i, data)
          /\ reported' = poll_reports(data)
    /\ outcome' = "none"
    /\ polls' = polls + 1
    /\ ReportFrame
NextReport ==
    \/ RegisterHook
    \/ UnregisterHook
    \/ RunAddHook
    \/ RunRemoveHook
    \/ RunHandleHook
    \/ EHookReturn
    \/ RunRefresh
    \/ ERequestFails
    \/ ERequestSucceeds
    \/ SleepEnds
    \/ Tick
SpecReport == Init /\ [][NextReport]_vars

\* ------------------------------------- the poll loop through the controller
\* SpecCancel joins the two halves: the request of poll loop i is the call
\* get_stations of the controller, made by the caller LoopCaller(i), and the
\* CancelledError that unregister_hook sends to the loop is raised at the
\* await the call is suspended in.
LoopCaller(i) == IF i % 2 = 1 THEN "c1" ELSE "c2"
RECURSIVE Without(_, _)
Without(seq, x) ==
    IF seq = <<>> THEN <<>>
    ELSE IF Head(seq) = x THEN Without(Tail(seq), x)
    ELSE <<Head(seq)>> \o Without(Tail(seq), x)
\* Mutant: the cancelled call keeps the throttle lock.
cancel_call_KeepsLock(c) ==
    /\ callers' = [callers EXCEPT ![c] = Idle]
    /\ lock' = [lock EXCEPT !.waiters = Without(@, c)]
    /\ calling' = [calling EXCEPT ![c] = NoCall]
    /\ UNCHANGED <<request_times, token, login_time, error_count>>
\* CancelledError raised inside get_stations.  Waiting for the lock, the
\* caller leaves the queue (Lock.acquire); handed the lock, or asleep inside
\* `async with self.lock`, it releases the lock on the way out; inside login
\* or the request nothing of the controller is touched.
cancel_call(c) ==
    /\ IF callers[c].pc = "acquire"
       THEN /\ lock' = [lock EXCEPT !.waiters = Without(@, c)]
            /\ callers' = [callers EXCEPT ![c] = Idle]
       ELSE IF callers[c].pc \in {"acquired", "sleep_window", "sleep_interval"}
       THEN /\ lock' = Released(lock)
            /\ callers' = HandOver([callers EXCEPT ![c] = Idle], lock)
       ELSE UNCHANGED <<lock, callers>>
    /\ calling' = [calling EXCEPT ![c] = NoCall]
    /\ UNCHANGED <<request_times, token, login_time, error_count>>

\* The delays that are pending: the sleeps of the poll loops, the sleeps
\* inside the throttle, and the time left before the cache expires.
Delays ==
    {loops[i].timer : i \in {k \in LoopIds : loops[k].pc = "sleep"}}
    \cup {callers[c].wake - now :
             c \in {k \in Callers :
                      callers[k].pc \in {"sleep_window", "sleep_interval"}}}
    \cup (IF station_status # <<>>
          THEN {EXPIRE_TIME - station_status[1].age} ELSE {})
\* Time passes up to the next pending delay: ready tasks run at once, and no
\* delay that is over is left waiting.
time_passes ==
    /\ ready = <<>>
    /\ \A i \in LoopIds : loops[i].pc = "sleep" => loops[i].timer > 0
    /\ \A c \in Callers :
          callers[c].pc \in {"sleep_window", "sleep_interval"}
             => now < callers[c].wake
    /\ \E d \in Delays :
          /\ d > 0
          /\ \A e \in Delays : e > 0 => d <= e
          /\ now' = now + d
          /\ station_status' =
                IF station_status = <<>> THEN <<>>
                ELSE <<[station_status[1] EXCEPT
                           !.age = Min(@ + d, EXPIRE_TIME)]>>
          /\ loops' = [i \in LoopIds |->
                          [loops[i] EXCEPT !.timer = Max(@ - d, 0)]]
    /\ UNCHANGED <<hooks, locks, refresh_task, ready, inhook, raised>>

ListenerUnchanged ==
    UNCHANGED <<hooks, locks, station_status, refresh_task, loops, ready,
                inhook, raised>>
CallUnchanged ==
    UNCHANGED <<request_times, lock, callers, token, login_time, error_count,
                calling>>
CancelFrame ==
    UNCHANGED <<last, finished, calls, admitted, admissions, first_admitted,
                begins, last_begin, streak, access>>
\* The calls made in SpecCancel: one hook, on either station.
CancelArgs == {<<"A", "h1">>, <<"B", "h1">>}
CRegisterHook ==
    /\ calls < MaxCalls
    /\ \E a \in CancelArgs : register_hook(a[1], a[2])
    /\ calls' = calls + 1
    /\ CallUnchanged
    /\ UNCHANGED <<now, polls, last, finished, admitted, admissions,
                   first_admitted, begins, last_begin, streak, access>>
CUnregisterHook ==
    /\ calls < MaxCalls
    /\ \E a \in CancelArgs : unregister_hook(a[1], a[2])
    /\ calls' = calls + 1
    /\ CallUnchanged
    /\ UNCHANGED <<now, polls, last, finished, admitted, admissions,
                   first_admitted, begins, last_begin, streak, access>>
\* The loop's step at the head of the ready queue: its first iteration begins
\* the call, a cancellation ends the call it was suspended in.
CRunRefresh ==
    /\ ready # <<>> /\ Head(ready).kind = "refresh"
    /\ LET i == Head(ready).id
       IN /\ refresh_step(i)
          /\ IF loops[i].cancelled
             THEN IF loops[i].pc = "request"
                       /\ calling[LoopCaller(i)] # NoCall
                  THEN cancel_call(LoopCaller(i))
                  ELSE CallUnchanged
             ELSE IF loops'[i].pc = "request"
                  THEN get_stations(LoopCaller(i))
                  ELSE CallUnchanged
    /\ UNCHANGED <<now, polls>> /\ CancelFrame
CSleepEnds ==
    /\ \E i \in LoopIds :
          /\ sleep_ends(i)
          /\ IF loops'[i].pc = "request"
             THEN get_stations(LoopCaller(i))
             ELSE CallUnchanged
    /\ UNCHANGED <<now, polls>> /\ CancelFrame
\* The loop's call moves on inside ensure_rate_limit.
CRateLimit ==
    /\ \E i \in LoopIds :
          /\ loops[i].pc = "request" /\ ~loops[i].cancelled
          /\ \/ rate_limit_acquired(LoopCaller(i))
             \/ rate_limit_wakes(LoopCaller(i))
    /\ ListenerUnchanged
    /\ UNCHANGED <<now, polls>> /\ CancelFrame
\* The login of the loop's call ends: an error leaves get_stations and is
\* the loop's request failure.
CLoginDone ==
    /\ \E i \in LoopIds, ok \in BOOLEAN :
          /\ loops[i].pc = "request" /\ ~loops[i].cancelled
          /\ login_done(LoopCaller(i), ok)
          /\ IF ok THEN ListenerUnchanged /\ UNCHANGED polls
             ELSE /\ polls < MaxPolls
                  /\ request_fails(i)
                  /\ polls' = polls + 1
    /\ UNCHANGED now /\ CancelFrame
\* The upstream request of the loop's call ends.
CRequestDone ==
    /\ polls < MaxPolls
    /\ \E i \in LoopIds, ok \in BOOLEAN :
          /\ request_done(LoopCaller(i), ok)
          /\ IF ok THEN \E data \in Snapshots : request_succeeds(i, data)
             ELSE request_fails(i)
    /\ polls' = polls + 1
    /\ UNCHANGED now /\ CancelFrame
CTimePasses ==
    /\ time_passes
    /\ CallUnchanged
    /\ UNCHANGED polls /\ CancelFrame
NextCancel ==
    \/ CRegisterHook
    \/ CUnregisterHook
    \/ RunAddHook
    \/ RunRemoveHook
    \/ RunHandleHook
    \/ HookReturn
    \/ CRunRefresh
    \/ CSleepEnds
    \/ CRateLimit
    \/ CLoginDone
    \/ CRequestDone
    \/ CTimePasses
SpecCancel == Init /\ [][NextCancel]_vars

\* ------------------------------------------------- the order of dispatches
\* SpecOrder records, per station, the dispatches in the order of their
\* creation (by register_hook or by a poll) until they run.
RECURSIVE Enqueue(_, _)
Enqueue(d, tasks) ==
    IF tasks = <<>> THEN d
    ELSE Enqueue([d EXCEPT ![Head(tasks).sid] =
                     Append(@, <<Head(tasks).hook, Head(tasks).data>>)],
                 Tail(tasks))
\* The dispatches a register_hook or poll step has appended to the queue.
Created ==
    SelectSeq(SubSeq(ready', Len(ready) + 1, Len(ready')),
              LAMBDA t : t.kind = "handle")
OrderFrame ==
    /\ UNCHANGED <<last, finished, fetching, returned, reported, outcome>>
    /\ UNCHANGED <<controller, session>>
ORegisterHook ==
    /\ calls < MaxCalls
    /\ \E a \in CallArgs : register_hook(a[1], a[2])
    /\ due' = Enqueue(due, Created)
    /\ calls' = calls + 1
    /\ UNCHANGED polls /\ OrderFrame
ORequestSucceeds ==
    /\ polls < MaxPolls
    /\ \E i \in LoopIds, data \in Snapshots : request_succeeds(i, data)
    /\ due' = Enqueue(due, Created)
    /\ polls' = polls + 1
    /\ UNCHANGED calls /\ OrderFrame
\* A dispatch runs when it gets past the station lock.
ORunHandleHook ==
    /\ ready # <<>> /\ Head(ready).kind = "handle"
    /\ handle_hook(Head(ready))
    /\ due' = IF Enters(Head(ready))
              THEN [due EXCEPT ![Head(ready).sid] = Tail(@)]
              ELSE due
    /\ UNCHANGED <<calls, polls>> /\ OrderFrame
NextOrder ==
    \/ ORegisterHook
    \/ UnregisterHook
    \/ RunAddHook
    \/ RunRemoveHook
    \/ ORunHandleHook
    \/ HookReturn
    \/ RunRefresh
    \/ RequestFails
    \/ ORequestSucceeds
    \/ SleepEnds
    \/ Tick
SpecOrder == Init /\ [][NextOrder]_vars

\* ------------------------------------------- hooks that call the listener
\* SpecOwnHook: the message handler registers hooks on station A, and a hook
\* body, while its dispatch holds the station lock, calls unregister_hook or
\* register_hook for itself (bot.py: the subscription hook calls
\* remove_subscriber before it returns True).  last and finished are both
\* recorded.  The event loop runs every ready task, and a hook body ends.
OwnArgs == {<<"A", "h1">>, <<"A", "h2">>}
NameOf(sid) == CHOOSE n \in DOMAIN stations : stations[n] = sid
OwnFrame ==
    /\ UNCHANGED polls
    /\ UNCHANGED <<controller, session, access>>
WRegisterHook ==
    /\ calls < MaxCalls
    /\ \E a \in OwnArgs :
          /\ register_hook(a[1], a[2])
          /\ last' = LastAfter("register", a[1], a[2])
          /\ finished' = finished \ {<<stations[a[1]], a[2]>>}
    /\ calls' = calls + 1
    /\ OwnFrame
WSelfRegister ==
    /\ calls < MaxCalls
    /\ \E k \in 1..Len(inhook) :
          /\ register_hook(NameOf(inhook[k].sid), inhook[k].hook)
          /\ last' = LastAfter("register", NameOf(inhook[k].sid),
                               inhook[k].hook)
          /\ finished' = finished \ {<<inhook[k].sid, inhook[k].hook>>}
    /\ calls' = calls + 1
    /\ OwnFrame
WSelfUnregister ==
    /\ calls < MaxCalls
    /\ \E k \in 1..Len(inhook) :
          /\ unregister_hook(NameOf(inhook[k].sid), inhook[k].hook)
          /\ last' = LastAfter("unregister", NameOf(inhook[k].sid),
                               inhook[k].hook)
    /\ calls' = calls + 1
    /\ UNCHANGED finished
    /\ OwnFrame
WHookReturn ==
    /\ \E k \in 1..Len(inhook), result \in {"true", "false", "raise"} :
          /\ hook_returns(k, result)
          /\ finished' = IF result = "true"
                         THEN finished \cup {<<inhook[k].sid, inhook[k].hook>>}
                         ELSE finished
    /\ UNCHANGED <<calls, last>>
    /\ OwnFrame
NextOwnHook ==
    \/ WRegisterHook
    \/ WSelfRegister
    \/ WSelfUnregister
    \/ RunAddHook
    \/ RunRemoveHook
    \/ RunHandleHook
    \/ WHookReturn
    \/ RunRefresh
    \/ RequestFails
    \/ RequestSucceeds
    \/ SleepEnds
    \/ Tick
SpecOwnHook ==
    /\ Init
    /\ [][NextOwnHook]_vars
    /\ WF_vars(RunAddHook)
    /\ WF_vars(RunRemoveHook)
    /\ WF_vars(RunHandleHook)
    /\ WF_vars(RunRefresh)
    /\ WF_vars(WHookReturn)

\* ------------------------------------------------------------------ claims
\* Every task that exists and is not a poll loop: ready, waiting for a lock,
\* or inside a hook.
Waiting ==
    locks[StationOrder[1]].waiters \o locks[StationOrder[2]].waiters
Pending(kinds) ==
    \/ \E k \in 1..Len(ready) : ready[k].kind \in kinds
    \/ \E k \in 1..Len(Waiting) : Waiting[k].kind \in kinds
PendingFor(kinds, sid, h) ==
    \/ \E k \in 1..Len(ready) :
          /\ ready[k].kind \in kinds
          /\ ready[k].sid = sid /\ ready[k].hook = h
    \/ \E k \in 1..Len(Waiting) :
          /\ Waiting[k].kind \in kinds
          /\ Waiting[k].sid = sid /\ Waiting[k].hook = h
CoreUnchanged ==
    UNCHANGED <<hooks, locks, station_status, refresh_task, loops, ready,
                inhook>>

\* C1: in every state where no station has a registered hook (and no
\* registration is still pending), no poll task exists: the handle is None and
\* no poll loop is live.
C1_NoHooksNoPollTask ==
    (~AnyHooks(hooks) /\ ~Pending({"add"}))
        => (refresh_task = 0 /\ LiveLoops = {})

\* C2: at most one poll loop is live at any time.
C2_AtMostOneLoop == Cardinality(LiveLoops) <= 1

\* C3: whenever a hook is registered and the add/remove tasks scheduled by
\* register_hook / unregister_hook have run, a poll loop is live.
C3_RegisteredHookHasLoop ==
    (AnyHooks(hooks) /\ ~Pending({"add", "remove"})) => LiveLoops # {}

\* C4: once a dispatch of hook h on station s has returned a truthy value, h
\* is not invoked for s again until it has been registered (appended to the
\* station's list) again.
C4_NoInvokeAfterTrue ==
    \A k \in 1..Len(inhook) : <<inhook[k].sid, inhook[k].hook>> \notin finished

\* C5: for each station at most one hook invocation is in progress at any
\* time, however long a hook stays suspended.
C5_OneInvocationPerStation ==
    \A s \in StationIds :
        Cardinality({k \in 1..Len(inhook) : inhook[k].sid = s}) <= 1
\* A hook is suspended on a station while a dispatch made by a later poll
\* waits for the station's lock.
C5_Witness ==
    \E k \in 1..Len(inhook) :
        \E j \in 1..Len(locks[inhook[k].sid].waiters) :
            /\ locks[inhook[k].sid].waiters[j].kind = "handle"
            /\ locks[inhook[k].sid].waiters[j].data # inhook[k].data

\* C6: when the last call concerning h on a station is unregister_hook, h is
\* absent from the station's list once the scheduled add/remove tasks have run.
C6_UnregisterRemoves ==
    \A s \in StationIds, h \in Hooks :
        (last[s][h] = "unregister" /\ ~PendingFor({"add", "remove"}, s, h))
            => ~In(h, hooks[s])

\* C7: unregister_hook(station, h) for a known station and a hook never
\* registered on it raises nothing and changes no hook list, nor the cache,
\* nor the poll loop, nor any task.
C7_UnregisterUnknownHookIsNoOp ==
    [][\A a \in CallArgs :
          (/\ a[1] \in DOMAIN stations
           /\ last[stations[a[1]]][a[2]] = "never"
           /\ unregister_hook(a[1], a[2]))
              => (raised' = "none" /\ CoreUnchanged)]_vars

\* C8: register_hook with a station name absent from the registry raises
\* ValueError and changes nothing: no hook, no task, no poll loop.
C8_UnknownStationRejected ==
    [][\A a \in CallArgs :
          (a[1] \notin DOMAIN stations /\ register_hook(a[1], a[2]))
              => (raised' = "ValueError" /\ CoreUnchanged)]_vars
\* A call with an unknown station name has been made.
C8_Witness == raised = "ValueError"

IsDispatch(t) == t.kind = "handle"
C10_AtMostFifteenPerWindow ==
    /\ Len(admitted) <= MAX_REQUESTS_PER_MINUTE
    /\ admissions > MAX_REQUESTS_PER_MINUTE
          => now - first_admitted >= WINDOW
\* Sixteen requests were admitted as fast as the limiter lets them through,
\* with a second caller queueing for the lock meanwhile.
C10_Witness ==
    /\ admissions = MAX_REQUESTS_PER_MINUTE + 1
    /\ now = MAX_REQUESTS_PER_MINUTE * MIN_REQUEST_INTERVAL
    /\ lock.locked

\* C11: no two upstream data requests issued through the controller begin
\* less than MIN_REQUEST_INTERVAL apart, whichever callers issue them and
\* whether or not a login comes between the throttle and the request.
C11_RequestsFiveSecondsApart ==
    [][(begins' > begins /\ begins > 0)
          => now - last_begin >= MIN_REQUEST_INTERVAL]_vars

NoCallInProgress == \A c \in Callers : calling[c] = NoCall
\* C12: after 5 consecutive failed requests through the controller, by
\* get_station_info or get_stations, the session is invalid, so that the next
\* request performs a login exchange whatever the session's age.
C12_FiveFailuresForceLogin ==
    (streak >= 5 /\ NoCallInProgress) => ~token

\* C17: between requests the consecutive-error counter is within 0..4: it is
\* reset when it reaches 5 and on every success.
C17_ErrorCountBelowFive ==
    NoCallInProgress => error_count \in 0..4

\* C18: ensure_login starts a login exchange exactly when there is no token or
\* the session is older than RELOGIN_INTERVAL; a login that succeeds records
\* the current time as login time; one that fails leaves the call with the
\* token and the login time as they were, so that the next call decides as
\* this one did.
C18_LoginWhenNeeded ==
    [][\A c \in Callers :
          LET needed == ~token \/ now - login_time > RELOGIN_INTERVAL
              \* c's step runs ensure_login's test: on entering get_stations,
              \* or on leaving the throttle in get_station_info.
              tests ==
                 \/ /\ calling[c] = NoCall
                    /\ calling'[c].op = "get_stations"
                 \/ /\ calling[c].pc \in {"idle", "rate_limit"}
                    /\ calling'[c].op = "get_station_info"
                    /\ calling'[c].pc \in {"login", "request"}
              ends == calling[c].pc = "login" /\ calling'[c].pc # "login"
          IN /\ tests => (calling'[c].pc = "login" <=> needed)
             /\ tests => UNCHANGED <<token, login_time>>
             /\ ends =>
                   \/ /\ calling'[c] # NoCall
                      /\ token' /\ login_time' = now
                   \/ /\ calling'[c] = NoCall
                      /\ UNCHANGED <<token, login_time>>]_vars
\* A session older than RELOGIN_INTERVAL has been renewed, and a login has
\* failed since.
C18_Witness ==
    /\ login_time > RELOGIN_INTERVAL
    /\ ~token

AsleepInThrottle(c) == callers[c].pc \in {"sleep_window", "sleep_interval"}
\* C16: while one caller of ensure_rate_limit is blocked waiting, the
\* throttle's critical section is not held.
C16_SleeperFreesSection ==
    \A c \in Callers : AsleepInThrottle(c) => ~lock.locked
\* C16 as amended: while one caller is blocked waiting, the critical section
\* stays held and every other caller is outside it or queued for it; the
\* caller woken from the minimum-interval wait records its admission at the
\* current time without testing anything again.
C16_SleeperHoldsSection ==
    [][/\ \A c \in Callers :
             AsleepInThrottle(c)' =>
                /\ lock'.locked
                /\ \A d \in Callers \ {c} :
                      callers'[d].pc \in {"idle", "acquire"}
       /\ \A c \in Callers :
             (callers[c].pc = "sleep_interval" /\ callers'[c] # callers[c])
                => /\ callers'[c].pc = "idle"
                   /\ request_times' = Append(request_times, now)]_vars
\* One caller sleeps inside the throttle while the other queues for the lock.
C16_Witness ==
    \E c \in Callers : AsleepInThrottle(c) /\ lock.waiters # <<>>

\* Loop i passes the top of an iteration: on its first step or after a sleep.
AtTop(i) ==
    \/ /\ ready # <<>> /\ Head(ready) = RefreshTask(i)
       /\ ~loops[i].cancelled
       /\ refresh_step(i)
    \/ sleep_ends(i)
C13_CacheOrFetch ==
    [][/\ get_station_status =>
             IF station_status # <<>> /\ station_status[1].age < EXPIRE_TIME
             THEN /\ ~fetching'
                  /\ ~returned'.error
                  /\ returned'.data = <<station_status[1].data>>
             ELSE fetching'
       /\ \A data \in Snapshots :
             status_fetched(data) =>
                /\ station_status' = <<[data |-> data, age |-> 0]>>
                /\ returned' = [error |-> FALSE, data |-> <<data>>]
       /\ status_fetch_fails =>
             /\ returned'.error
             /\ UNCHANGED station_status]_vars
\* A call found no record it could serve, fetched, and returned the fetched
\* data, which are now the cache.
C13_Witness ==
    /\ returned.data # <<>> /\ returned.data # <<FirstSnapshot>>
    /\ station_status # <<>> /\ returned.data = <<station_status[1].data>>
    /\ polls = 0

\* C19: a hook that raises is reported through on_error and is not treated
\* as finished: it stays in its station's list, and a successful poll whose
\* data hold the station dispatches every hook in the list again.
C19_RaisingHookStays ==
    [][/\ \A k \in 1..Len(inhook) :
             (hook_returns(k, "raise") /\ outcome' = "raise") =>
                /\ reported' = "hook error"
                /\ hooks' = hooks
       /\ \A i \in LoopIds, data \in Snapshots :
             request_succeeds(i, data) =>
                \A s \in StationIds \cap DOMAIN data :
                   \A j \in 1..Len(hooks[s]) :
                      \E n \in (Len(ready) + 1)..Len(ready') :
                         /\ ready'[n].kind = "handle"
                         /\ ready'[n].sid = s
                         /\ ready'[n].hook = hooks[s][j]]_vars

\* C20: no failure ends the poll loop.  A failed request is reported, leaves
\* the cache as it was and puts the loop to sleep for POLL_INTERVAL; a live
\* loop stops being live only by cancellation or by finding every hook list
\* empty.
C20_OnlyEmptyOrCancelStops ==
    [][/\ \A i \in LoopIds :
             (request_fails(i) /\ outcome' = "failed") =>
                /\ reported' = "request error"
                /\ UNCHANGED station_status
                /\ loops'[i] = Sleeping
       /\ \A i \in LoopIds :
             (Live(loops[i]) /\ ~Live(loops'[i])) =>
                loops'[i].cancelled \/ ~AnyHooks(hooks)]_vars

\* C21: a successful poll whose data lack a registry station passes a warning
\* to on_warning and creates no dispatch for that station; it creates one
\* dispatch for every hook of every station the data hold, and the loop then
\* sleeps until the next poll, whatever the replaced snapshot contained.
C21_MissingStationSkipped ==
    [][\A i \in LoopIds, data \in Snapshots :
          (request_succeeds(i, data) /\ outcome' = "none") =>
             LET new == SubSeq(ready', Len(ready) + 1, Len(ready'))
             IN /\ StationIds \ DOMAIN data # {} => reported' = "warning"
                /\ \A n \in 1..Len(new) : new[n].sid \in DOMAIN data
                /\ \A s \in StationIds \cap DOMAIN data :
                      \A j \in 1..Len(hooks[s]) :
                         \E n \in 1..Len(new) :
                            new[n].sid = s /\ new[n].hook = hooks[s][j]
                /\ loops'[i] = Sleeping]_vars

\* C22: on each station the dispatches run in the order of their creation: a
\* dispatch that gets past the station lock (to invoke its hook, or to find it
\* gone) is the oldest one created for the station and not yet run, so a hook
\* sees the states in the order they were fetched, however long a hook holds
\* the lock.
C22_DispatchesRunInOrder ==
    [][(/\ ready # <<>> /\ Head(ready).kind = "handle"
        /\ handle_hook(Head(ready))
        /\ Enters(Head(ready)))
          => /\ due[Head(ready).sid] # <<>>
             /\ Head(due[Head(ready).sid])
                   = <<Head(ready).hook, Head(ready).data>>]_vars
\* A hook has stayed suspended on station 1 across two polls; the dispatch of
\* the first poll has been handed the lock and is about to run while the
\* dispatch of the second, with another state, still waits.
C22_Witness ==
    /\ polls = 2
    /\ Len(due[1]) = 2 /\ due[1][1][2] # due[1][2][2]
    /\ ready # <<>> /\ Head(ready).kind = "handle" /\ Head(ready).locked
    /\ Head(ready).sid = 1 /\ Head(ready).prev # <<>>
    /\ locks[1].waiters # <<>>

\* The tasks that hold or were handed the lock of station s.
Holders(s) ==
    Cardinality({k \in 1..Len(inhook) : inhook[k].sid = s})
    + Cardinality({k \in 1..Len(ready) :
                      ready[k].kind # "refresh" /\ ready[k].sid = s
                                                /\ ready[k].locked})
\* C23: stations are independent.  After every step a station's lock is held
\* only by a task of that station, and tasks wait for it only while it is
\* held, so a dispatch suspended on one station never keeps a dispatch, add
\* or remove of another from proceeding; a station's hook list is changed only
\* by an add or remove task of that station or by one of its own dispatches
\* finishing: register_hook, unregister_hook and the tasks of other stations
\* leave it alone.
C23_StationsIndependent ==
    [][\A s \in StationIds :
          /\ locks'[s].locked <=> Holders(s)' = 1
          /\ locks'[s].waiters # <<>> => locks'[s].locked
          /\ \A k \in 1..Len(locks'[s].waiters) :
                locks'[s].waiters[k].sid = s
          /\ hooks'[s] # hooks[s] =>
                \/ /\ ready # <<>>
                   /\ Head(ready).kind \in {"add", "remove"}
                   /\ Head(ready).sid = s
                   /\ ready' = Tail(ready) \o Woken(locks[s])
                \/ \E k \in 1..Len(inhook) :
                      inhook[k].sid = s /\ hook_returns(k, "true")]_vars
\* Hooks are suspended on both stations at once.
C23_Witness ==
    /\ \E k \in 1..Len(inhook) : inhook[k].sid = 1
    /\ \E k \in 1..Len(inhook) : inhook[k].sid = 2

\* C24: no station's hook list ever holds a hook twice.
C24_NoDuplicateHooks ==
    \A s \in StationIds :
        \A j, k \in 1..Len(hooks[s]) :
            hooks[s][j] = hooks[s][k] => j = k
\* The add task of a repeated registration is about to run: its hook is in
\* the station's list already.
C24_Witness ==
    /\ ready # <<>> /\ Head(ready).kind = "add"
    /\ In(Head(ready).hook, hooks[Head(ready).sid])

\* The step invokes hook h on station s.
Invokes(s, h) ==
    /\ Len(inhook') > Len(inhook)
    /\ inhook'[Len(inhook')].sid = s
    /\ inhook'[Len(inhook')].hook = h
\* C25: once unregister_hook(s, h) has returned for a hook h that was in the
\* list of s (the call scheduled its removal), h is not invoked on s unless
\* register_hook(s, h) is called again: no step invokes h while the last call
\* made for it is unregister_hook and that removal is still to run, that is,
\* a dispatch of h scheduled or queued on the lock before the call does not
\* invoke h.
C25_NoInvokeAfterUnregister ==
    [][\A s \in StationIds, h \in Hooks :
          Invokes(s, h) =>
             ~(last[s][h] = "unregister" /\ PendingFor({"remove"}, s, h))]_vars

\* CancelledError reaches loop i at the await it is suspended in.
Delivered(i) ==
    /\ ready # <<>> /\ Head(ready) = RefreshTask(i)
    /\ loops[i].cancelled
    /\ refresh_step(i)
InsideThrottle(c) ==
    callers[c].pc \in {"acquired", "sleep_window", "sleep_interval"}
\* C26: cancelling the poll loop, wherever it is suspended, leaves a
\* consistent system.  The cancellation and its delivery change neither the
\* cache nor any hook list; once delivered to a loop suspended in its
\* request, the loop's call is over and is neither inside the throttle nor
\* queued for it; after every step the throttle lock is held exactly when a
\* call is inside the throttle, and every call in progress is that of a loop
\* still in its request, so the lock is never left held by a loop that
\* ended; and register_hook, finding the handle clear, starts a live loop.
C26_CancellationIsSafe ==
    [][/\ \A i \in LoopIds :
             Delivered(i) =>
                /\ UNCHANGED <<station_status, hooks>>
                /\ loops[i].pc = "request" =>
                      /\ callers'[LoopCaller(i)] = Idle
                      /\ calling'[LoopCaller(i)] = NoCall
                      /\ ~In(LoopCaller(i), lock'.waiters)
       /\ \A i \in LoopIds :
             (loops'[i].cancelled /\ ~loops[i].cancelled)
                => UNCHANGED <<station_status, hooks, lock, callers>>
       /\ lock'.locked <=> \E c \in Callers : InsideThrottle(c)'
       /\ \A c \in Callers :
             calling'[c] # NoCall =>
                \E i \in LoopIds :
                   LoopCaller(i) = c /\ loops'[i].pc = "request"
       /\ \A a \in CancelArgs :
             (refresh_task = 0 /\ register_hook(a[1], a[2])) =>
                /\ refresh_task' # 0
                /\ Live(loops'[refresh_task'])]_vars
\* A loop has been cancelled while its call sleeps inside the throttle, the
\* lock held; the CancelledError is still to be delivered.
C26_Witness ==
    \E i \in LoopIds :
        /\ loops[i].cancelled
        /\ callers[LoopCaller(i)].pc = "sleep_interval"
        /\ lock.locked

\* C27: the task handle and the poll loops agree: the handle is None exactly
\* when no poll loop is live, and a handle that is set names a live loop, so
\* that no loop clears the handle of a newer one and no ended loop leaves its
\* handle behind.
C27_HandleNamesLiveLoop ==
    /\ refresh_task = 0 <=> LiveLoops = {}
    /\ refresh_task # 0 => Live(loops[refresh_task])

\* Hook h returned true on station s, and the last call made for it is the
\* unregister_hook of its own dispatch.
OwnDone(s, h) == <<s, h>> \in finished /\ last[s][h] = "unregister"
\* Nothing of h is left on station s: no task, no invocation, no list entry.
Settled(s, h) ==
    /\ ~In(h, hooks[s])
    /\ ~PendingFor({"add", "remove", "handle"}, s, h)
    /\ \A k \in 1..Len(inhook) : ~(inhook[k].sid = s /\ inhook[k].hook = h)
\* No add, remove or dispatch task exists and every station lock is free.
Drained ==
    /\ ~Pending({"add", "remove", "handle"})
    /\ inhook = <<>>
    /\ \A s \in StationIds : ~locks[s].locked
\* C28: a hook calling unregister_hook or register_hook for itself from
\* inside its dispatch never deadlocks.  Every dispatch ends and frees the
\* station lock and every scheduled task runs to its end: again and again
\* no task is left and no lock is held; and once a hook has returned true
\* after its own unregister_hook it ends up absent from the list with nothing
\* pending (unless it is registered again).
C28_OwnCallsNeverDeadlock ==
    /\ []<>Drained
    /\ \A s \in StationIds, h \in Hooks :
          OwnDone(s, h) ~> (Settled(s, h) \/ last[s][h] = "register")
\* The hook called unregister_hook for itself, returned true, and the removal
\* task that call scheduled is still to run.
C28_Witness ==
    /\ OwnDone(1, "h1")
    /\ PendingFor({"remove"}, 1, "h1")
    /\ ~In("h1", hooks[1])

\* C29: a login exchange is never concurrent with another upstream exchange
\* of the controller: at most one caller is inside client.login, and while
\* one is, no other caller's data request is in flight.
C29_LoginIsExclusive ==
    /\ Cardinality({c \in Callers : calling[c].pc = "login"}) <= 1
    /\ \A c \in Callers : \A d \in Callers \ {c} :
          calling[c].pc = "login" => calling[d].pc # "request"

\* C30: request_times is non-decreasing; after pruning at most 12 of its
\* times are within the window of the current time; so the list never
\* reaches MAX_REQUESTS_PER_MINUTE entries and no caller is ever in the
\* window-full sleep of ensure_rate_limit.
C30_WindowNeverFull ==
    /\ \A i \in 1..(Len(request_times) - 1) :
          request_times[i] <= request_times[i + 1]
    /\ Len(Prune(request_times, now)) <= WINDOW \div MIN_REQUEST_INTERVAL
    /\ Len(request_times) < MAX_REQUESTS_PER_MINUTE
    /\ \A c \in Callers : callers[c].pc # "sleep_window"
\* Twelve requests were admitted as fast as the limiter allows and all are
\* still in the window, while the next caller sleeps out the interval.
C30_Witness ==
    /\ Len(Prune(request_times, now)) = WINDOW \div MIN_REQUEST_INTERVAL
    /\ \E c \in Callers : callers[c].pc = "sleep_interval"

====
